---- MODULE Spec2Model ----
(***************************************************************************)
(* Anatomical alignment of the cranial landmark workflow modules           *)
(* (CranIALCTAnnotation, LandmarkFlow, MandibleNerveFlow).                 *)
(*                                                                         *)
(* Numbers.  The alignment code works on real coordinates with atan2, cos  *)
(* and sin.  Every quantity it computes from integer landmark coordinates  *)
(* is a rational multiple of the square root of a squarefree integer, so   *)
(* a number is modelled exactly as <<p, q, n>> = (p / q) * sqrt(n), with   *)
(* q > 0, gcd(p, q) = 1, n squarefree and <<0, 1, 1>> for zero.  An angle  *)
(* is modelled by its <<cos, sin>>, which does not depend on the unit      *)
(* (radians from arctan2, degrees for vtkTransform) it is written in.      *)
(***************************************************************************)
EXTENDS Integers, Sequences, FiniteSets, TLC

\* ------------------------------------------------------------------ bounds
\* Landmark coordinates of the enumerated inputs lie in -MaxCoord..MaxCoord.
MaxCoord == 1
\* At most MaxFiducials control points are placed on the fiducial node.
MaxFiducials == 5

\* ----------------------------------------------------------- exact numbers
Abs(i) == IF i < 0 THEN -i ELSE i

RECURSIVE GCD(_, _)
GCD(a, b) == IF b = 0 THEN a ELSE GCD(b, a % b)

\* The largest f with f * f dividing m (m >= 1), by trial division from f.
RECURSIVE SquareFactor(_, _)
SquareFactor(m, f) ==
    IF f * f > m THEN 1
    ELSE IF m % (f * f) = 0 THEN f * SquareFactor(m \div (f * f), f)
    ELSE SquareFactor(m, f + 1)

Zero == <<0, 1, 1>>
One == <<1, 1, 1>>
\* The value of an addition whose operands are not commensurable: no real
\* number of the modelled form.  It never arises from the alignment code.
NotANumber == <<0, 0, 0>>

Norm(p, q, n) ==
    IF q = 0 THEN NotANumber
    ELSE IF p = 0 THEN Zero
    ELSE LET g == GCD(Abs(p), q) IN <<p \div g, q \div g, n>>

Num(i) == <<i, 1, 1>>
IsZero(x) == x = Zero
IsNumber(x) == x[2] > 0
Sign(x) == IF x[1] > 0 THEN 1 ELSE IF x[1] < 0 THEN -1 ELSE 0
Neg(x) == <<-x[1], x[2], x[3]>>

Mul(x, y) ==
    IF x[2] = 0 \/ y[2] = 0 THEN NotANumber
    ELSE IF x[1] = 0 \/ y[1] = 0 THEN Zero
    ELSE LET g == GCD(x[3], y[3])
         IN  Norm(x[1] * y[1] * g, x[2] * y[2], (x[3] \div g) * (y[3] \div g))

Add(x, y) ==
    IF x[2] = 0 \/ y[2] = 0 THEN NotANumber
    ELSE IF x[1] = 0 THEN y
    ELSE IF y[1] = 0 THEN x
    ELSE IF x[3] # y[3] THEN NotANumber
    ELSE Norm(x[1] * y[2] + y[1] * x[2], x[2] * y[2], x[3])

Sub(x, y) == Add(x, Neg(y))

\* x / y; a division by zero gives NotANumber.
Div(x, y) ==
    IF x[2] = 0 \/ y[2] = 0 \/ y[1] = 0 THEN NotANumber
    ELSE LET inv == IF y[1] > 0 THEN <<y[2], y[1] * y[3], y[3]>>
                    ELSE <<-y[2], (-y[1]) * y[3], y[3]>>
         IN  Mul(x, Norm(inv[1], inv[2], inv[3]))

Half(x) == Div(x, Num(2))

\* The square root of a non-negative rational x = p / q.
Sqrt(x) ==
    IF x[2] = 0 \/ x[3] # 1 \/ x[1] < 0 THEN NotANumber
    ELSE IF x[1] = 0 THEN Zero
    ELSE LET sp == SquareFactor(x[1], 2)
             sq == SquareFactor(x[2], 2)
             kp == x[1] \div (sp * sp)
             kq == x[2] \div (sq * sq)
         IN  Norm(sp, sq * kq, kp * kq)

\* ------------------------------------------------------ points and matrices
\* A landmark position as the code holds it: a list of three coordinates.
Point(x, y, z) == <<Num(x), Num(y), Num(z)>>

\* vtkMatrix4x4: four rows of four numbers.
Identity ==
    << <<One, Zero, Zero, Zero>>,
       <<Zero, One, Zero, Zero>>,
       <<Zero, Zero, One, Zero>>,
       <<Zero, Zero, Zero, One>> >>

Sum4(a, b, c, d) == Add(Add(Add(a, b), c), d)

\* vtkMatrix4x4::Multiply4x4(a, b)
Multiply4x4(a, b) ==
    [i \in 1..4 |->
        [j \in 1..4 |->
            Sum4(Mul(a[i][1], b[1][j]), Mul(a[i][2], b[2][j]),
                 Mul(a[i][3], b[3][j]), Mul(a[i][4], b[4][j]))]]

\* arctan2 with its arguments taken in the other order.
arctan2Swapped(y, x) ==
    IF IsZero(x) /\ IsZero(y) THEN <<One, Zero>>
    ELSE LET r == Sqrt(Add(Mul(x, x), Mul(y, y)))
         IN  <<Div(y, r), Div(x, r)>>

\* arctan2 computed as the direction (x, y) / |(x, y)| with no case for (0, 0).
arctan2NoZeroCase(y, x) ==
    LET r == Sqrt(Add(Mul(x, x), Mul(y, y)))
    IN  <<Div(x, r), Div(y, r)>>

\* np.arctan2(y, x) as the <<cos, sin>> of the angle; np.arctan2(0, 0) is 0.
arctan2(y, x) ==
    IF IsZero(x) /\ IsZero(y) THEN <<One, Zero>>
    ELSE LET r == Sqrt(Add(Mul(x, x), Mul(y, y)))
         IN  <<Div(x, r), Div(y, r)>>

\* The negation of the angle left out.
MinusDropped(a) == a

\* The angle -a.
Minus(a) == <<a[1], Neg(a[2])>>

\* RotateZ with the sine of the first row written one column too far.
RotateZColumnSlip(a) ==
    << <<a[1], Zero, Zero, Neg(a[2])>>,
       <<a[2], a[1], Zero, Zero>>,
       <<Zero, Zero, One, Zero>>,
       <<Zero, Zero, Zero, One>> >>

\* RotateY with the same sign on both sines.
RotateYSameSign(a) ==
    << <<a[1], Zero, a[2], Zero>>,
       <<Zero, One, Zero, Zero>>,
       <<a[2], Zero, a[1], Zero>>,
       <<Zero, Zero, Zero, One>> >>

\* RotateX turning the other way.
RotateXOpposite(a) ==
    << <<One, Zero, Zero, Zero>>,
       <<Zero, a[1], a[2], Zero>>,
       <<Zero, Neg(a[2]), a[1], Zero>>,
       <<Zero, Zero, Zero, One>> >>

\* A new vtkTransform() followed by RotateZ / RotateY / RotateX(angle):
\* the identity post-multiplied by the rotation about that axis.
RotateZ(a) ==
    Multiply4x4(Identity,
        << <<a[1], Neg(a[2]), Zero, Zero>>,
           <<a[2], a[1], Zero, Zero>>,
           <<Zero, Zero, One, Zero>>,
           <<Zero, Zero, Zero, One>> >>)

RotateY(a) ==
    Multiply4x4(Identity,
        << <<a[1], Zero, a[2], Zero>>,
           <<Zero, One, Zero, Zero>>,
           <<Neg(a[2]), Zero, a[1], Zero>>,
           <<Zero, Zero, Zero, One>> >>)

RotateX(a) ==
    Multiply4x4(Identity,
        << <<One, Zero, Zero, Zero>>,
           <<Zero, a[1], Neg(a[2]), Zero>>,
           <<Zero, a[2], a[1], Zero>>,
           <<Zero, Zero, Zero, One>> >>)

\* Concatenate as in PostMultiply mode: m becomes other * m.
ConcatenatePostMultiply(m, other) == Multiply4x4(other, m)

\* vtkTransform::Concatenate(other) in the default PreMultiply mode: the
\* current matrix m becomes m * other.
Concatenate(m, other) == Multiply4x4(m, other)

\* vtkTransform::TransformPoint(p): the homogeneous point (p, 1) through m.
TransformPoint(m, p) ==
    [i \in 1..3 |->
        Sum4(Mul(m[i][1], p[1]), Mul(m[i][2], p[2]), Mul(m[i][3], p[3]), m[i][4])]

\* -------------------------------------------------------- alignment logic
\* Each function is written statement by statement, last statement first:
\* an operator takes the locals assigned so far and passes them, with the
\* one it assigns, to the operator of the next statement.

\* [a[0] - b[0], a[1] - b[1], a[2] - b[2]]
Difference(a, b) == <<Sub(a[1], b[1]), Sub(a[2], b[2]), Sub(a[3], b[3])>>

\* getFrankfortAlignment: vTransform3.Concatenate(vTransform2);
\* vTransform3.Concatenate(vTransform); return vTransform3.GetMatrix().
\* The value is the record of the locals with the matrix returned.
FrankfortConcatenate(po, vTransform, poB, vTransform2, po_zyo, vTransform3) ==
    [vTransform |-> vTransform, vTransform2 |-> vTransform2,
     vTransform3 |-> vTransform3, po |-> po, poB |-> poB, po_zyo |-> po_zyo,
     matrix |-> Concatenate(Concatenate(vTransform3, vTransform2), vTransform)]

\* vTransform3 = vtk.vtkTransform(); vTransform3.RotateX(-arctan2(po_zyo[2], po_zyo[1]))
FrankfortStage3(po, vTransform, poB, vTransform2, po_zyo) ==
    FrankfortConcatenate(po, vTransform, poB, vTransform2, po_zyo,
                         RotateX(Minus(arctan2(po_zyo[3], po_zyo[2]))))

\* po_zyo = [zyo[0] - (po1[0] + po2[0]) / 2, ...]
FrankfortMidToZyo(po, vTransform, poB, vTransform2, po1, po2, zyo) ==
    FrankfortStage3(po, vTransform, poB, vTransform2,
                    <<Sub(zyo[1], Half(Add(po1[1], po2[1]))),
                      Sub(zyo[2], Half(Add(po1[2], po2[2]))),
                      Sub(zyo[3], Half(Add(po1[3], po2[3])))>>)

\* po1, po2, zyo = vTransform2.TransformPoint(po1), (po2), (zyo)
FrankfortPoints2(po, vTransform, poB, vTransform2, po1, po2, zyo) ==
    FrankfortMidToZyo(po, vTransform, poB, vTransform2,
                      TransformPoint(vTransform2, po1),
                      TransformPoint(vTransform2, po2),
                      TransformPoint(vTransform2, zyo))

\* vTransform2 = vtk.vtkTransform(); vTransform2.RotateY(arctan2(po[2], po[0]))
FrankfortStage2(po, vTransform, poB, po1, po2, zyo) ==
    FrankfortPoints2(po, vTransform, poB, RotateY(arctan2(poB[3], poB[1])),
                     po1, po2, zyo)

\* The second stage computed from the difference of the raw porions.
FrankfortPo2Raw(po, vTransform, po1, po2, zyo) ==
    FrankfortStage2(po, vTransform, po, po1, po2, zyo)

\* po = [po1[0] - po2[0], ...], the second assignment of po (poB here)
FrankfortPo2(po, vTransform, po1, po2, zyo) ==
    FrankfortStage2(po, vTransform, Difference(po1, po2), po1, po2, zyo)

\* po1, po2, zyo = vTransform.TransformPoint(poR), (poL), (zyoL)
FrankfortPoints1(po, vTransform, poR, poL, zyoL) ==
    FrankfortPo2(po, vTransform,
                 TransformPoint(vTransform, poR),
                 TransformPoint(vTransform, poL),
                 TransformPoint(vTransform, zyoL))

\* vTransform = vtk.vtkTransform(); vTransform.RotateZ(-arctan2(po[1], po[0]))
FrankfortStage1(po, poR, poL, zyoL) ==
    FrankfortPoints1(po, RotateZ(Minus(arctan2(po[2], po[1]))), poR, poL, zyoL)

\* po = [poR[0] - poL[0], ...]
FrankfortLocals(poR, poL, zyoL) ==
    FrankfortStage1(Difference(poR, poL), poR, poL, zyoL)

getFrankfortAlignment(poR, poL, zyoL) == FrankfortLocals(poR, poL, zyoL).matrix

\* getOSeAlignment: vTransform3.Concatenate(vTransform2);
\* vTransform3.Concatenate(vTransform); return vTransform3.GetMatrix().
OSeConcatenate(po, vTransform, poB, vTransform2, o_se, vTransform3) ==
    [vTransform |-> vTransform, vTransform2 |-> vTransform2,
     vTransform3 |-> vTransform3, po |-> po, poB |-> poB, o_se |-> o_se,
     matrix |-> Concatenate(Concatenate(vTransform3, vTransform2), vTransform)]

\* vTransform3 = vtk.vtkTransform(); vTransform3.RotateX(-arctan2(o_se[2], o_se[1]))
OSeStage3(po, vTransform, poB, vTransform2, o_se) ==
    OSeConcatenate(po, vTransform, poB, vTransform2, o_se,
                   RotateX(Minus(arctan2(o_se[3], o_se[2]))))

\* The midline vector taken the other way, o1 - se1.
OSePoints2Reversed(po, vTransform, poB, vTransform2, se1, o1) ==
    OSeStage3(po, vTransform, poB, vTransform2,
              Difference(TransformPoint(vTransform2, o1),
                         TransformPoint(vTransform2, se1)))

\* se1, o1 = vTransform2.TransformPoint(se1), (o1);
\* o_se = [se1[0] - o1[0], se1[1] - o1[1], se1[2] - o1[2]]
OSePoints2(po, vTransform, poB, vTransform2, se1, o1) ==
    OSeStage3(po, vTransform, poB, vTransform2,
              Difference(TransformPoint(vTransform2, se1),
                         TransformPoint(vTransform2, o1)))

\* vTransform2 = vtk.vtkTransform(); vTransform2.RotateY(arctan2(po[2], po[0]))
OSeStage2(po, vTransform, poB, se1, o1) ==
    OSePoints2(po, vTransform, poB, RotateY(arctan2(poB[3], poB[1])), se1, o1)

\* po1, po2, se1, o1 = vTransform.TransformPoint(poR), (poL), (se), (o);
\* po = [po1[0] - po2[0], ...], the second assignment of po (poB here)
OSePoints1(po, vTransform, poR, poL, se, o) ==
    OSeStage2(po, vTransform,
              Difference(TransformPoint(vTransform, poR),
                         TransformPoint(vTransform, poL)),
              TransformPoint(vTransform, se),
              TransformPoint(vTransform, o))

\* vTransform = vtk.vtkTransform(); vTransform.RotateZ(-arctan2(po[1], po[0]))
OSeStage1(po, poR, poL, se, o) ==
    OSePoints1(po, RotateZ(Minus(arctan2(po[2], po[1]))), poR, poL, se, o)

\* po = [poR[0] - poL[0], ...]
OSeLocals(poR, poL, se, o) == OSeStage1(Difference(poR, poL), poR, poL, se, o)

getOSeAlignment(poR, poL, se, o) == OSeLocals(poR, poL, se, o).matrix

\* The copy of the two functions in LandmarkFlowLogic, statement by statement
\* as above.
\* LandmarkFlowLogic.getFrankfortAlignment: vTransform3.Concatenate(vTransform2);
\* vTransform3.Concatenate(vTransform); return vTransform3.GetMatrix().
\* The value is the record of the locals with the matrix returned.
LandmarkFlow_FrankfortConcatenate(po, vTransform, poB, vTransform2, po_zyo, vTransform3) ==
    [vTransform |-> vTransform, vTransform2 |-> vTransform2,
     vTransform3 |-> vTransform3, po |-> po, poB |-> poB, po_zyo |-> po_zyo,
     matrix |-> Concatenate(Concatenate(vTransform3, vTransform2), vTransform)]

\* vTransform3 = vtk.vtkTransform(); vTransform3.RotateX(-arctan2(po_zyo[2], po_zyo[1]))
LandmarkFlow_FrankfortStage3(po, vTransform, poB, vTransform2, po_zyo) ==
    LandmarkFlow_FrankfortConcatenate(po, vTransform, poB, vTransform2, po_zyo,
                         RotateX(Minus(arctan2(po_zyo[3], po_zyo[2]))))

\* po_zyo = [zyo[0] - (po1[0] + po2[0]) / 2, ...]
LandmarkFlow_FrankfortMidToZyo(po, vTransform, poB, vTransform2, po1, po2, zyo) ==
    LandmarkFlow_FrankfortStage3(po, vTransform, poB, vTransform2,
                    <<Sub(zyo[1], Half(Add(po1[1], po2[1]))),
                      Sub(zyo[2], Half(Add(po1[2], po2[2]))),
                      Sub(zyo[3], Half(Add(po1[3], po2[3])))>>)

\* po1, po2, zyo = vTransform2.TransformPoint(po1), (po2), (zyo)
LandmarkFlow_FrankfortPoints2(po, vTransform, poB, vTransform2, po1, po2, zyo) ==
    LandmarkFlow_FrankfortMidToZyo(po, vTransform, poB, vTransform2,
                      TransformPoint(vTransform2, po1),
                      TransformPoint(vTransform2, po2),
                      TransformPoint(vTransform2, zyo))

\* vTransform2 = vtk.vtkTransform(); vTransform2.RotateY(arctan2(po[2], po[0]))
LandmarkFlow_FrankfortStage2(po, vTransform, poB, po1, po2, zyo) ==
    LandmarkFlow_FrankfortPoints2(po, vTransform, poB, RotateY(arctan2(poB[3], poB[1])),
                     po1, po2, zyo)

\* po = [po1[0] - po2[0], ...], the second assignment of po (poB here)
LandmarkFlow_FrankfortPo2(po, vTransform, po1, po2, zyo) ==
    LandmarkFlow_FrankfortStage2(po, vTransform, Difference(po1, po2), po1, po2, zyo)

\* po1, po2, zyo = vTransform.TransformPoint(poR), (poL), (zyoL)
LandmarkFlow_FrankfortPoints1(po, vTransform, poR, poL, zyoL) ==
    LandmarkFlow_FrankfortPo2(po, vTransform,
                 TransformPoint(vTransform, poR),
                 TransformPoint(vTransform, poL),
                 TransformPoint(vTransform, zyoL))

\* vTransform = vtk.vtkTransform(); vTransform.RotateZ(-arctan2(po[1], po[0]))
LandmarkFlow_FrankfortStage1(po, poR, poL, zyoL) ==
    LandmarkFlow_FrankfortPoints1(po, RotateZ(Minus(arctan2(po[2], po[1]))), poR, poL, zyoL)

\* po = [poR[0] - poL[0], ...]
LandmarkFlow_FrankfortLocals(poR, poL, zyoL) ==
    LandmarkFlow_FrankfortStage1(Difference(poR, poL), poR, poL, zyoL)

LandmarkFlow_getFrankfortAlignment(poR, poL, zyoL) == LandmarkFlow_FrankfortLocals(poR, poL, zyoL).matrix

\* LandmarkFlowLogic.getOSeAlignment: vTransform3.Concatenate(vTransform2);
\* vTransform3.Concatenate(vTransform); return vTransform3.GetMatrix().
LandmarkFlow_OSeConcatenate(po, vTransform, poB, vTransform2, o_se, vTransform3) ==
    [vTransform |-> vTransform, vTransform2 |-> vTransform2,
     vTransform3 |-> vTransform3, po |-> po, poB |-> poB, o_se |-> o_se,
     matrix |-> Concatenate(Concatenate(vTransform3, vTransform2), vTransform)]

\* vTransform3 = vtk.vtkTransform(); vTransform3.RotateX(-arctan2(o_se[2], o_se[1]))
LandmarkFlow_OSeStage3(po, vTransform, poB, vTransform2, o_se) ==
    LandmarkFlow_OSeConcatenate(po, vTransform, poB, vTransform2, o_se,
                   RotateX(Minus(arctan2(o_se[3], o_se[2]))))

\* se1, o1 = vTransform2.TransformPoint(se1), (o1);
\* o_se = [se1[0] - o1[0], se1[1] - o1[1], se1[2] - o1[2]]
LandmarkFlow_OSePoints2(po, vTransform, poB, vTransform2, se1, o1) ==
    LandmarkFlow_OSeStage3(po, vTransform, poB, vTransform2,
              Difference(TransformPoint(vTransform2, se1),
                         TransformPoint(vTransform2, o1)))

\* vTransform2 = vtk.vtkTransform(); vTransform2.RotateY(arctan2(po[2], po[0]))
LandmarkFlow_OSeStage2(po, vTransform, poB, se1, o1) ==
    LandmarkFlow_OSePoints2(po, vTransform, poB, RotateY(arctan2(poB[3], poB[1])), se1, o1)

\* po1, po2, se1, o1 = vTransform.TransformPoint(poR), (poL), (se), (o);
\* po = [po1[0] - po2[0], ...], the second assignment of po (poB here)
LandmarkFlow_OSePoints1(po, vTransform, poR, poL, se, o) ==
    LandmarkFlow_OSeStage2(po, vTransform,
              Difference(TransformPoint(vTransform, poR),
                         TransformPoint(vTransform, poL)),
              TransformPoint(vTransform, se),
              TransformPoint(vTransform, o))

\* vTransform = vtk.vtkTransform(); vTransform.RotateZ(-arctan2(po[1], po[0]))
LandmarkFlow_OSeStage1(po, poR, poL, se, o) ==
    LandmarkFlow_OSePoints1(po, RotateZ(Minus(arctan2(po[2], po[1]))), poR, poL, se, o)

\* po = [poR[0] - poL[0], ...]
LandmarkFlow_OSeLocals(poR, poL, se, o) == LandmarkFlow_OSeStage1(Difference(poR, poL), poR, poL, se, o)

LandmarkFlow_getOSeAlignment(poR, poL, se, o) == LandmarkFlow_OSeLocals(poR, poL, se, o).matrix

\* The copy of the two functions in MandibleNerveFlowLogic, statement by statement
\* as above.
\* MandibleNerveFlowLogic.getFrankfortAlignment: vTransform3.Concatenate(vTransform2);
\* vTransform3.Concatenate(vTransform); return vTransform3.GetMatrix().
\* The value is the record of the locals with the matrix returned.
MandibleNerveFlow_FrankfortConcatenate(po, vTransform, poB, vTransform2, po_zyo, vTransform3) ==
    [vTransform |-> vTransform, vTransform2 |-> vTransform2,
     vTransform3 |-> vTransform3, po |-> po, poB |-> poB, po_zyo |-> po_zyo,
     matrix |-> Concatenate(Concatenate(vTransform3, vTransform2), vTransform)]

\* vTransform3 = vtk.vtkTransform(); vTransform3.RotateX(-arctan2(po_zyo[2], po_zyo[1]))
MandibleNerveFlow_FrankfortStage3(po, vTransform, poB, vTransform2, po_zyo) ==
    MandibleNerveFlow_FrankfortConcatenate(po, vTransform, poB, vTransform2, po_zyo,
                         RotateX(Minus(arctan2(po_zyo[3], po_zyo[2]))))

\* po_zyo = [zyo[0] - (po1[0] + po2[0]) / 2, ...]
MandibleNerveFlow_FrankfortMidToZyo(po, vTransform, poB, vTransform2, po1, po2, zyo) ==
    MandibleNerveFlow_FrankfortStage3(po, vTransform, poB, vTransform2,
                    <<Sub(zyo[1], Half(Add(po1[1], po2[1]))),
                      Sub(zyo[2], Half(Add(po1[2], po2[2]))),
                      Sub(zyo[3], Half(Add(po1[3], po2[3])))>>)

\* po1, po2, zyo = vTransform2.TransformPoint(po1), (po2), (zyo)
MandibleNerveFlow_FrankfortPoints2(po, vTransform, poB, vTransform2, po1, po2, zyo) ==
    MandibleNerveFlow_FrankfortMidToZyo(po, vTransform, poB, vTransform2,
                      TransformPoint(vTransform2, po1),
                      TransformPoint(vTransform2, po2),
                      TransformPoint(vTransform2, zyo))

\* vTransform2 = vtk.vtkTransform(); vTransform2.RotateY(arctan2(po[2], po[0]))
MandibleNerveFlow_FrankfortStage2(po, vTransform, poB, po1, po2, zyo) ==
    MandibleNerveFlow_FrankfortPoints2(po, vTransform, poB, RotateY(arctan2(poB[3], poB[1])),
                     po1, po2, zyo)

\* po = [po1[0] - po2[0], ...], the second assignment of po (poB here)
MandibleNerveFlow_FrankfortPo2(po, vTransform, po1, po2, zyo) ==
    MandibleNerveFlow_FrankfortStage2(po, vTransform, Difference(po1, po2), po1, po2, zyo)

\* po1, po2, zyo = vTransform.TransformPoint(poR), (poL), (zyoL)
MandibleNerveFlow_FrankfortPoints1(po, vTransform, poR, poL, zyoL) ==
    MandibleNerveFlow_FrankfortPo2(po, vTransform,
                 TransformPoint(vTransform, poR),
                 TransformPoint(vTransform, poL),
                 TransformPoint(vTransform, zyoL))

\* vTransform = vtk.vtkTransform(); vTransform.RotateZ(-arctan2(po[1], po[0]))
MandibleNerveFlow_FrankfortStage1(po, poR, poL, zyoL) ==
    MandibleNerveFlow_FrankfortPoints1(po, RotateZ(Minus(arctan2(po[2], po[1]))), poR, poL, zyoL)

\* po = [poR[0] - poL[0], ...]
MandibleNerveFlow_FrankfortLocals(poR, poL, zyoL) ==
    MandibleNerveFlow_FrankfortStage1(Difference(poR, poL), poR, poL, zyoL)

MandibleNerveFlow_getFrankfortAlignment(poR, poL, zyoL) == MandibleNerveFlow_FrankfortLocals(poR, poL, zyoL).matrix

\* MandibleNerveFlowLogic.getOSeAlignment: vTransform3.Concatenate(vTransform2);
\* vTransform3.Concatenate(vTransform); return vTransform3.GetMatrix().
MandibleNerveFlow_OSeConcatenate(po, vTransform, poB, vTransform2, o_se, vTransform3) ==
    [vTransform |-> vTransform, vTransform2 |-> vTransform2,
     vTransform3 |-> vTransform3, po |-> po, poB |-> poB, o_se |-> o_se,
     matrix |-> Concatenate(Concatenate(vTransform3, vTransform2), vTransform)]

\* vTransform3 = vtk.vtkTransform(); vTransform3.RotateX(-arctan2(o_se[2], o_se[1]))
MandibleNerveFlow_OSeStage3(po, vTransform, poB, vTransform2, o_se) ==
    MandibleNerveFlow_OSeConcatenate(po, vTransform, poB, vTransform2, o_se,
                   RotateX(Minus(arctan2(o_se[3], o_se[2]))))

\* The copy of MandibleNerveFlowLogic drifted: the midline vector o1 - se1.
MandibleNerveFlow_OSePoints2Reversed(po, vTransform, poB, vTransform2, se1, o1) ==
    MandibleNerveFlow_OSeStage3(po, vTransform, poB, vTransform2,
              Difference(TransformPoint(vTransform2, o1),
                         TransformPoint(vTransform2, se1)))

\* se1, o1 = vTransform2.TransformPoint(se1), (o1);
\* o_se = [se1[0] - o1[0], se1[1] - o1[1], se1[2] - o1[2]]
MandibleNerveFlow_OSePoints2(po, vTransform, poB, vTransform2, se1, o1) ==
    MandibleNerveFlow_OSeStage3(po, vTransform, poB, vTransform2,
              Difference(TransformPoint(vTransform2, se1),
                         TransformPoint(vTransform2, o1)))

\* vTransform2 = vtk.vtkTransform(); vTransform2.RotateY(arctan2(po[2], po[0]))
MandibleNerveFlow_OSeStage2(po, vTransform, poB, se1, o1) ==
    MandibleNerveFlow_OSePoints2(po, vTransform, poB, RotateY(arctan2(poB[3], poB[1])), se1, o1)

\* po1, po2, se1, o1 = vTransform.TransformPoint(poR), (poL), (se), (o);
\* po = [po1[0] - po2[0], ...], the second assignment of po (poB here)
MandibleNerveFlow_OSePoints1(po, vTransform, poR, poL, se, o) ==
    MandibleNerveFlow_OSeStage2(po, vTransform,
              Difference(TransformPoint(vTransform, poR),
                         TransformPoint(vTransform, poL)),
              TransformPoint(vTransform, se),
              TransformPoint(vTransform, o))

\* vTransform = vtk.vtkTransform(); vTransform.RotateZ(-arctan2(po[1], po[0]))
MandibleNerveFlow_OSeStage1(po, poR, poL, se, o) ==
    MandibleNerveFlow_OSePoints1(po, RotateZ(Minus(arctan2(po[2], po[1]))), poR, poL, se, o)

\* po = [poR[0] - poL[0], ...]
MandibleNerveFlow_OSeLocals(poR, poL, se, o) == MandibleNerveFlow_OSeStage1(Difference(poR, poL), poR, poL, se, o)

MandibleNerveFlow_getOSeAlignment(poR, poL, se, o) == MandibleNerveFlow_OSeLocals(poR, poL, se, o).matrix

\* ------------------------------------------------------------------- state
\* call               one call of the alignment logic on its own: the
\*                    operation, its arguments, the position of the call
\*                    ("called", "returned") and, once returned, the locals
\*                    of the call with the matrix it returns.
\* The widget (CranIALCTAnnotationWidget; the alignment handlers of
\* LandmarkFlowWidget and MandibleNerveFlowWidget are the same code):
\* landmarkNames      self.landmarkNames, the ordered names of the project.
\* importVolumeButton self.importVolumeButton.enabled.
\* annotationButtons  the enabled state of the buttons that enableButtons and
\*                    disableButtons switch together (alignments, export,
\*                    clear scene, ...).
\* volumeNode         self.volumeNode: "unset" (no attribute), "inScene" or
\*                    "removed" (the attribute still holds the removed node).
\* fiducialNode       self.fiducialNode: its state as for volumeNode and the
\*                    positions of its control points.  Their labels are
\*                    written by the handlers and read by none, and are
\*                    left out.
\* transformNode      self.transformNode: its state and its matrix to parent.
\* fileTable          self.fileTable with the table view that shows it, in the
\*                    table workflow of LandmarkFlowWidget and
\*                    CleftLandmarkFlowWidget: the state of the node, the
\*                    columns of the file beyond the ensured ones, the status
\*                    of each row in the node and in the file it was loaded
\*                    from, the rows the view hides, the selected row
\*                    (0: none).
\* activeRow          self.activeRow, the table row of the imported image.
\* handler            the handler that ran last.
\* outcome            how it ended: "returned", or the exception it raised.
\* message            the window title of the message box it showed, "" if none.
VARIABLES call, landmarkNames, importVolumeButton, annotationButtons,
          volumeNode, fiducialNode, transformNode, handler, outcome, message,
          fileTable, activeRow

widget == <<landmarkNames, importVolumeButton, annotationButtons,
            volumeNode, fiducialNode, transformNode, handler, outcome, message,
            fileTable, activeRow>>
vars == <<call, landmarkNames, importVolumeButton, annotationButtons,
          volumeNode, fiducialNode, transformNode, handler, outcome, message,
          fileTable, activeRow>>

\* The widget after setup(): no project, no nodes, every button but the
\* project selector disabled.
WidgetInit ==
    /\ landmarkNames = <<>>
    /\ importVolumeButton = FALSE
    /\ annotationButtons = FALSE
    /\ volumeNode = "unset"
    /\ fiducialNode = [state |-> "unset", points |-> <<>>]
    /\ transformNode = [state |-> "unset", matrix |-> Identity]
    /\ handler = "setup"
    /\ outcome = "returned"
    /\ message = ""
    /\ fileTable = [state |-> "unset", columns |-> {}, status |-> <<>>,
                    file |-> <<>>, hidden |-> {}, selected |-> 0]
    /\ activeRow = 0

\* ------------------------------------------------- calls of the logic alone
Coords == (-MaxCoord)..MaxCoord
Cube == {Point(x, y, z) : x \in Coords, y \in Coords, z \in Coords}
\* The second porion and the opisthion are drawn from two positions, one of
\* them off the origin, the other points from the whole cube.
Base == {Point(0, 0, 0), Point(1, -1, 0)}
\* The positions of the concrete scenario of the Frankfort alignment.
ScenarioPoR == Point(50, 0, 0)
ScenarioPoL == Point(-50, 0, 0)
ScenarioThird == Point(0, 80, 100)

\* Porions on the X axis, symmetric about the origin, on either side.
LevelInputs ==
    {<<Point(a, 0, 0), Point(-a, 0, 0), zyoL>> : a \in Coords \ {0}, zyoL \in Cube}

FrankfortInputs ==
    {<<poR, poL, zyoL>> : poR \in Cube, poL \in Base, zyoL \in Cube}
        \cup {<<ScenarioPoR, ScenarioPoL, ScenarioThird>>}
        \cup LevelInputs

OSeInputs == {<<poR, poL, se, o>> : poR \in Cube, poL \in Base, se \in Cube, o \in Base}

AlignInit ==
    /\ WidgetInit
    /\ \/ \E in \in FrankfortInputs :
             call = [op |-> "getFrankfortAlignment", pc |-> "called",
                     poR |-> in[1], poL |-> in[2], third |-> in[3]]
       \/ \E in \in OSeInputs :
             call = [op |-> "getOSeAlignment", pc |-> "called",
                     poR |-> in[1], poL |-> in[2], se |-> in[3], o |-> in[4]]

\* getFrankfortAlignment writing the rotated porion back into its argument.
FrankfortReturnInPlace ==
    /\ call.op = "getFrankfortAlignment" /\ call.pc = "called"
    /\ call' = [op |-> call.op, pc |-> "returned",
                poR |-> TransformPoint(getFrankfortAlignment(call.poR, call.poL, call.third), call.poR),
                poL |-> call.poL, third |-> call.third,
                locals |-> FrankfortLocals(call.poR, call.poL, call.third)]
    /\ UNCHANGED widget

\* A call of getFrankfortAlignment runs to its return: the arguments are
\* read, the locals and the matrix are new values of the call.
FrankfortReturn ==
    /\ call.op = "getFrankfortAlignment" /\ call.pc = "called"
    /\ call' = [op |-> call.op, pc |-> "returned",
                poR |-> call.poR, poL |-> call.poL, third |-> call.third,
                locals |-> FrankfortLocals(call.poR, call.poL, call.third)]
    /\ UNCHANGED widget

OSeReturn ==
    /\ call.op = "getOSeAlignment" /\ call.pc = "called"
    /\ call' = [op |-> call.op, pc |-> "returned",
                poR |-> call.poR, poL |-> call.poL, se |-> call.se, o |-> call.o,
                locals |-> OSeLocals(call.poR, call.poL, call.se, call.o)]
    /\ UNCHANGED widget

AlignNext == FrankfortReturn \/ OSeReturn

AlignSpec == AlignInit /\ [][AlignNext]_vars

\* ------------------------------------------------- calls running together
\* Several threads call the logic at once.  The variable call holds, for each
\* thread, the operation, its arguments, the statement it is at and the value
\* returned to it (threads), and the local names of each invocation (frames).
\* A step runs one statement of one thread.
MaxThreads == 2
Threads == 1..MaxThreads
Unassigned == <<>>
LastStatement == 8
HasReturned(t) == call.threads[t].pc = LastStatement + 1
NewFrame ==
    [po |-> Unassigned, vTransform |-> Unassigned, po1 |-> Unassigned,
     po2 |-> Unassigned, zyo |-> Unassigned, se1 |-> Unassigned, o1 |-> Unassigned,
     vTransform2 |-> Unassigned, po_zyo |-> Unassigned, o_se |-> Unassigned,
     vTransform3 |-> Unassigned]

\* The arguments the threads call with.
ThreadCalls ==
    { [op |-> "getFrankfortAlignment", args |-> <<Point(1, 1, 0), Point(0, 0, 0), Point(0, 1, 1)>>],
      [op |-> "getFrankfortAlignment", args |-> <<Point(-1, 0, 1), Point(1, -1, 0), Point(1, 1, 1)>>],
      [op |-> "getOSeAlignment", args |-> <<Point(1, 0, 1), Point(0, 0, 0), Point(0, 1, 1), Point(0, 0, 0)>>],
      [op |-> "getOSeAlignment", args |-> <<Point(0, 1, -1), Point(1, -1, 0), Point(1, 0, 1), Point(1, -1, 0)>>] }

\* Every invocation's names in one namespace shared by all the threads.
FrameShared(t) == 1

\* The namespace the names of thread t's invocation live in: the
\* invocation's own frame (po, vTransform, ... are local names of the call).
Frame(t) == t

\* Statement pc of getFrankfortAlignment on the frame f of its invocation.
FrankfortStatement(pc, args, f) ==
    CASE pc = 0 -> [f EXCEPT !.po = Difference(args[1], args[2])]
      [] pc = 1 -> [f EXCEPT !.vTransform = RotateZ(Minus(arctan2(f.po[2], f.po[1])))]
      [] pc = 2 -> [f EXCEPT !.po1 = TransformPoint(f.vTransform, args[1]),
                             !.po2 = TransformPoint(f.vTransform, args[2]),
                             !.zyo = TransformPoint(f.vTransform, args[3])]
      [] pc = 3 -> [f EXCEPT !.po = Difference(f.po1, f.po2)]
      [] pc = 4 -> [f EXCEPT !.vTransform2 = RotateY(arctan2(f.po[3], f.po[1]))]
      [] pc = 5 -> [f EXCEPT !.po1 = TransformPoint(f.vTransform2, f.po1),
                             !.po2 = TransformPoint(f.vTransform2, f.po2),
                             !.zyo = TransformPoint(f.vTransform2, f.zyo)]
      [] pc = 6 -> [f EXCEPT !.po_zyo =
                        <<Sub(f.zyo[1], Half(Add(f.po1[1], f.po2[1]))),
                          Sub(f.zyo[2], Half(Add(f.po1[2], f.po2[2]))),
                          Sub(f.zyo[3], Half(Add(f.po1[3], f.po2[3])))>>]
      [] pc = 7 -> [f EXCEPT !.vTransform3 = RotateX(Minus(arctan2(f.po_zyo[3], f.po_zyo[2])))]
      [] pc = 8 -> [f EXCEPT !.vTransform3 =
                        Concatenate(Concatenate(f.vTransform3, f.vTransform2), f.vTransform)]

\* Statement pc of getOSeAlignment on the frame f of its invocation.
OSeStatement(pc, args, f) ==
    CASE pc = 0 -> [f EXCEPT !.po = Difference(args[1], args[2])]
      [] pc = 1 -> [f EXCEPT !.vTransform = RotateZ(Minus(arctan2(f.po[2], f.po[1])))]
      [] pc = 2 -> [f EXCEPT !.po1 = TransformPoint(f.vTransform, args[1]),
                             !.po2 = TransformPoint(f.vTransform, args[2]),
                             !.se1 = TransformPoint(f.vTransform, args[3]),
                             !.o1 = TransformPoint(f.vTransform, args[4])]
      [] pc = 3 -> [f EXCEPT !.po = Difference(f.po1, f.po2)]
      [] pc = 4 -> [f EXCEPT !.vTransform2 = RotateY(arctan2(f.po[3], f.po[1]))]
      [] pc = 5 -> [f EXCEPT !.se1 = TransformPoint(f.vTransform2, f.se1),
                             !.o1 = TransformPoint(f.vTransform2, f.o1)]
      [] pc = 6 -> [f EXCEPT !.o_se = Difference(f.se1, f.o1)]
      [] pc = 7 -> [f EXCEPT !.vTransform3 = RotateX(Minus(arctan2(f.o_se[3], f.o_se[2])))]
      [] pc = 8 -> [f EXCEPT !.vTransform3 =
                        Concatenate(Concatenate(f.vTransform3, f.vTransform2), f.vTransform)]

ConcurrentInit ==
    /\ WidgetInit
    /\ \E calls \in [Threads -> ThreadCalls] :
          call = [op |-> "threads", pc |-> "running",
                  threads |-> [t \in Threads |->
                                  [op |-> calls[t].op, args |-> calls[t].args,
                                   pc |-> 0, result |-> Unassigned]],
                  frames |-> [t \in Threads |-> NewFrame]]

\* Thread t runs its next statement with the frame after it; the last
\* statement returns vTransform3.GetMatrix(), and the thread is then past it.
ThreadStep(t, after) ==
    /\ call' = [call EXCEPT
                  !.frames[Frame(t)] = after,
                  !.threads[t].pc = @ + 1,
                  !.threads[t].result =
                      IF call.threads[t].pc = LastStatement THEN after.vTransform3 ELSE @]
    /\ UNCHANGED widget

FrankfortThread ==
    \E t \in Threads :
        /\ call.threads[t].op = "getFrankfortAlignment"
        /\ call.threads[t].pc \in 0..LastStatement
        /\ ThreadStep(t, FrankfortStatement(call.threads[t].pc, call.threads[t].args,
                                            call.frames[Frame(t)]))

OSeThread ==
    \E t \in Threads :
        /\ call.threads[t].op = "getOSeAlignment"
        /\ call.threads[t].pc \in 0..LastStatement
        /\ ThreadStep(t, OSeStatement(call.threads[t].pc, call.threads[t].args,
                                      call.frames[Frame(t)]))

ConcurrentNext == FrankfortThread \/ OSeThread

ConcurrentSpec == ConcurrentInit /\ [][ConcurrentNext]_vars

\* --------------------------------------------- the copies of the logic
\* The Logic classes that define getFrankfortAlignment and getOSeAlignment
\* (CleftLandmarkFlowLogic defines neither).  A call is made on an object of
\* one of them; call.class names it.
LogicClasses == {"CranIALCTAnnotationLogic", "LandmarkFlowLogic", "MandibleNerveFlowLogic"}

CopiesInit ==
    /\ WidgetInit
    /\ \E class \in LogicClasses :
          \/ \E in \in FrankfortInputs :
                call = [op |-> "getFrankfortAlignment", class |-> class, pc |-> "called",
                        poR |-> in[1], poL |-> in[2], third |-> in[3],
                        locals |-> Unassigned]
          \/ \E in \in OSeInputs :
                call = [op |-> "getOSeAlignment", class |-> class, pc |-> "called",
                        poR |-> in[1], poL |-> in[2], se |-> in[3], o |-> in[4],
                        locals |-> Unassigned]

\* The call of op on an object of class runs to its return with these locals.
LogicReturn(class, op, locals) ==
    /\ call.class = class /\ call.op = op /\ call.pc = "called"
    /\ call' = [call EXCEPT !.pc = "returned", !.locals = locals]
    /\ UNCHANGED widget

CranIALCTAnnotationFrankfort ==
    LogicReturn("CranIALCTAnnotationLogic", "getFrankfortAlignment",
                FrankfortLocals(call.poR, call.poL, call.third))
CranIALCTAnnotationOSe ==
    LogicReturn("CranIALCTAnnotationLogic", "getOSeAlignment",
                OSeLocals(call.poR, call.poL, call.se, call.o))
LandmarkFlowFrankfort ==
    LogicReturn("LandmarkFlowLogic", "getFrankfortAlignment",
                LandmarkFlow_FrankfortLocals(call.poR, call.poL, call.third))
LandmarkFlowOSe ==
    LogicReturn("LandmarkFlowLogic", "getOSeAlignment",
                LandmarkFlow_OSeLocals(call.poR, call.poL, call.se, call.o))
MandibleNerveFlowFrankfort ==
    LogicReturn("MandibleNerveFlowLogic", "getFrankfortAlignment",
                MandibleNerveFlow_FrankfortLocals(call.poR, call.poL, call.third))
MandibleNerveFlowOSe ==
    LogicReturn("MandibleNerveFlowLogic", "getOSeAlignment",
                MandibleNerveFlow_OSeLocals(call.poR, call.poL, call.se, call.o))

CopiesNext ==
    \/ CranIALCTAnnotationFrankfort
    \/ CranIALCTAnnotationOSe
    \/ LandmarkFlowFrankfort
    \/ LandmarkFlowOSe
    \/ MandibleNerveFlowFrankfort
    \/ MandibleNerveFlowOSe

CopiesSpec == CopiesInit /\ [][CopiesNext]_vars

\* ------------------------------------------------------------- the widget
\* onLoadProject takes a project file with at least this many lines.
MinProjectLines == 4

\* The landmark-name files of the projects that are loaded: all seven names;
\* no zyoL and no zyoR; three names only.
NameLists ==
    { <<"poR", "poL", "zyoL", "zyoR", "se", "o", "n">>,
      <<"o", "n", "se", "poL", "poR">>,
      <<"poL", "poR", "zyoL">> }

\* Where the operator places the k-th control point: on one of two spots
\* of the volume, so that consecutive points may coincide.
Spot(k) == Point((k % 3) - 1, ((k \div 2) % 3) - 1, (((k + 1) \div 3) % 3) - 1)
FiducialPositions(k) == {Spot(k), Spot(k + 1)}
\* The control points of the landmark file of an image annotated before.
StoredFiducials == <<Spot(1)>>

Init ==
    /\ call = [op |-> "none", pc |-> "idle"]
    /\ WidgetInit

\* What every handler leaves of the widget when it ends.
Returns(h, out, msg) == handler' = h /\ outcome' = out /\ message' = msg
\* The same for a handler that is not of the table workflow: the table and
\* the active row are as before.
Ends(h, out, msg) == Returns(h, out, msg) /\ UNCHANGED <<fileTable, activeRow>>

onLoadProject ==
    \E lines \in {MinProjectLines - 1, MinProjectLines}, names \in NameLists :
        /\ IF lines >= MinProjectLines
           THEN /\ landmarkNames' = names
                /\ importVolumeButton' = TRUE
                /\ Ends("onLoadProject", "returned", "")
           ELSE /\ landmarkNames' = landmarkNames
                /\ importVolumeButton' = FALSE
                /\ Ends("onLoadProject", "returned", "Project file error")
        /\ UNCHANGED <<call, annotationButtons, volumeNode, fiducialNode, transformNode>>

\* enableButtons(): the annotation buttons on, Import image off.
enableButtons == annotationButtons' = TRUE /\ importVolumeButton' = FALSE
\* disableButtons(): the annotation buttons off, Import image on.
disableButtons == annotationButtons' = FALSE /\ importVolumeButton' = TRUE

\* The body of onImportVolume under `if bool(self.volumeNode)`: the fiducial
\* node is loaded from the landmark file or created empty, and a new
\* transform node holds the identity.
ImportNodes(stored) ==
    /\ fiducialNode' = [state |-> "inScene",
                        points |-> IF stored THEN StoredFiducials ELSE <<>>]
    /\ transformNode' = [state |-> "inScene", matrix |-> Identity]
    /\ enableButtons

\* selected: a table cell is selected; loads: slicer.util.loadVolume
\* succeeds; stored: the landmark file of the image loads; survives: a
\* volume node removed from the scene still serves onBoneWindow and render3d
\* (whether it does is the host application's matter).
onImportVolume ==
    /\ importVolumeButton
    /\ \E selected \in BOOLEAN, loads \in BOOLEAN, stored \in BOOLEAN, survives \in BOOLEAN :
        /\ UNCHANGED <<call, landmarkNames>>
        /\ IF ~selected
           THEN /\ Ends("onImportVolume", "returned", "")
                /\ UNCHANGED <<importVolumeButton, annotationButtons, volumeNode,
                               fiducialNode, transformNode>>
           ELSE IF loads
           THEN /\ volumeNode' = "inScene"
                /\ ImportNodes(stored)
                /\ Ends("onImportVolume", "returned", "")
           ELSE IF volumeNode = "unset"
           THEN /\ Ends("onImportVolume", "AttributeError", "Image cannot be loaded")
                /\ UNCHANGED <<importVolumeButton, annotationButtons, volumeNode,
                               fiducialNode, transformNode>>
           ELSE IF volumeNode = "inScene" \/ survives
           THEN /\ volumeNode' = volumeNode
                /\ ImportNodes(stored)
                /\ Ends("onImportVolume", "returned", "Image cannot be loaded")
           ELSE /\ Ends("onImportVolume", "AttributeError", "Image cannot be loaded")
                /\ UNCHANGED <<importVolumeButton, annotationButtons, volumeNode,
                               fiducialNode, transformNode>>

\* The operator places one more control point with the host's markups tool.
PlaceFiducial ==
    /\ fiducialNode.state = "inScene"
    /\ Len(fiducialNode.points) < MaxFiducials
    /\ \E p \in FiducialPositions(Len(fiducialNode.points) + 1) :
          fiducialNode' = [fiducialNode EXCEPT !.points = Append(@, p)]
    /\ Ends("PlaceFiducial", "returned", "")
    /\ UNCHANGED <<call, landmarkNames, importVolumeButton, annotationButtons,
                   volumeNode, transformNode>>

\* slicer.mrmlScene.RemoveNode(node) under hasattr: the attribute stays.
Removed(state) == IF state = "unset" THEN "unset" ELSE "removed"

cleanup ==
    /\ fiducialNode' = [fiducialNode EXCEPT !.state = Removed(@)]
    /\ volumeNode' = Removed(volumeNode)
    /\ transformNode' = [transformNode EXCEPT !.state = Removed(@)]
    /\ disableButtons

onSkip ==
    /\ annotationButtons
    /\ cleanup
    /\ Ends("onSkip", "returned", "")
    /\ UNCHANGED <<call, landmarkNames>>

\* fiducialNode.GetNumberOfControlPoints() / GetNumberOfFiducials()
GetNumberOfFiducials == Len(fiducialNode.points)

\* nameFiducials(): control point i gets the label landmarkNames[i];
\* indexing past the end of landmarkNames raises IndexError.
nameFiducialsRaises == GetNumberOfFiducials > Len(landmarkNames)

\* np.where(self.landmarkNames == name)[0]: the 0-based indices of name.
where(name) == {i \in 0..(Len(landmarkNames) - 1) : landmarkNames[i + 1] = name}
\* ...[0][0]: the first of them; IndexError when there is none.
LookupRaises(name) == where(name) = {}
Id(name) == CHOOSE i \in where(name) : \A j \in where(name) : i <= j

\* The check before the positions are read: some required landmark has no
\* placed point.
NotMarkedYet(required) == \E name \in required : GetNumberOfFiducials <= Id(name)

\* p = [0, 0, 0]; fiducialNode.GetNthFiducialPosition(id, p)
GetNthFiducialPosition(id) ==
    IF id < GetNumberOfFiducials THEN fiducialNode.points[id + 1]
    ELSE Point(0, 0, 0)

\* The computed matrix concatenated onto the one the node holds.
TransformAfterComposed(refused, mat) ==
    IF refused THEN transformNode
    ELSE [transformNode EXCEPT !.matrix = Multiply4x4(mat, @)]

\* The transform node after a handler that refused, or that computed mat.
TransformAfterResetFirst(refused, mat) ==
    [transformNode EXCEPT !.matrix = IF refused THEN Identity ELSE mat]

TransformAfter(refused, mat) ==
    IF refused THEN transformNode ELSE [transformNode EXCEPT !.matrix = mat]

\* The common course of the four alignment handlers: name the fiducials,
\* look the required names up, warn when a landmark is not marked yet,
\* else install the matrix of the alignment.
Alignment(h, required, mat) ==
    /\ annotationButtons
    /\ fiducialNode' = fiducialNode
    /\ IF nameFiducialsRaises \/ \E name \in required : LookupRaises(name)
       THEN /\ Ends(h, "IndexError", "")
            /\ transformNode' = TransformAfter(TRUE, Identity)
       ELSE IF NotMarkedYet(required)
       THEN /\ Ends(h, "returned", "Missing landmark")
            /\ transformNode' = TransformAfter(TRUE, Identity)
       ELSE /\ Ends(h, "returned", "")
            /\ transformNode' = TransformAfter(FALSE, mat)
    /\ UNCHANGED <<call, landmarkNames, importVolumeButton, annotationButtons, volumeNode>>

FrankfortMatrix(third) ==
    getFrankfortAlignment(GetNthFiducialPosition(Id("poR")),
                          GetNthFiducialPosition(Id("poL")),
                          GetNthFiducialPosition(Id(third)))
OSeMatrix(second) ==
    getOSeAlignment(GetNthFiducialPosition(Id("poR")),
                    GetNthFiducialPosition(Id("poL")),
                    GetNthFiducialPosition(Id(second)),
                    GetNthFiducialPosition(Id("o")))

onFrankfort == Alignment("onFrankfort", {"zyoL", "poR", "poL"}, FrankfortMatrix("zyoL"))
onFrankfort2 == Alignment("onFrankfort2", {"zyoR", "poR", "poL"}, FrankfortMatrix("zyoR"))
onOSeaAlignment == Alignment("onOSeaAlignment", {"o", "se", "poR", "poL"}, OSeMatrix("se"))
onONaAlignment == Alignment("onONaAlignment", {"o", "n", "poR", "poL"}, OSeMatrix("n"))

Next ==
    \/ onLoadProject
    \/ onImportVolume
    \/ PlaceFiducial
    \/ onFrankfort
    \/ onFrankfort2
    \/ onOSeaAlignment
    \/ onONaAlignment
    \/ onSkip

Spec == Init /\ [][Next]_vars

\* ------------------------------------------------------ the table workflow
\* LandmarkFlowWidget and CleftLandmarkFlowWidget: a table of images is
\* loaded, a row is selected and its image imported, landmarks are placed
\* and exported.  call.op names the widget; volumeNode stands for the image
\* node (the volume, or the mesh of CleftLandmarkFlowWidget, which has no
\* transform node).
MaxRows == 2
Rows == 1..MaxRows
FlowWidgets == {"LandmarkFlowWidget", "CleftLandmarkFlowWidget"}
IsCleft == call.op = "CleftLandmarkFlowWidget"
\* The column updateStatus looks up without a check that it is there:
\* LandmarkFlowWidget the column named by its caller, 'Landmark';
\* CleftLandmarkFlowWidget, after 'Status' and 'User', the column 'Date'.
NeededColumn == IF IsCleft THEN "Date" ELSE "Landmark"
\* The columns a table file may have, of those the widget looks up, besides
\* the 'User' and 'Status' columns that checkForStatusColumn ensures.
OptionalColumns == {NeededColumn}
\* The tables a project file may name: some rows are complete already.
TablesInFile ==
    {[state |-> "loaded", columns |-> c, status |-> st, file |-> st,
      hidden |-> {}, selected |-> 0] :
        c \in SUBSET OptionalColumns, st \in [Rows -> {"", "Complete"}]}

FlowInit ==
    /\ \E w \in FlowWidgets : call = [op |-> w, pc |-> "widget"]
    /\ WidgetInit

\* onLoadTable: the table node is removed and, with a project file of four
\* lines or more, loaded from the table file.  No row is hidden
\* (hideCompletedSamples is not called).
onLoadTable ==
    \E lines \in {MinProjectLines - 1, MinProjectLines}, names \in NameLists :
        /\ IF lines >= MinProjectLines
           THEN /\ fileTable' \in
                      IF fileTable.state = "unset" THEN TablesInFile
                      ELSE {[fileTable EXCEPT !.state = "loaded", !.status = fileTable.file,
                                              !.hidden = {}, !.selected = 0]}
                /\ landmarkNames' = names
                /\ importVolumeButton' = TRUE
                /\ Returns("onLoadTable", "returned", "")
           ELSE /\ fileTable' = [fileTable EXCEPT !.state = Removed(@), !.selected = 0]
                /\ landmarkNames' = landmarkNames
                /\ importVolumeButton' = FALSE
                /\ Returns("onLoadTable", "returned", "Project file error")
        /\ UNCHANGED <<call, annotationButtons, volumeNode, fiducialNode,
                       transformNode, activeRow>>

\* The operator selects a cell of a row the table view shows.
SelectCell ==
    /\ fileTable.state = "loaded"
    /\ \E r \in Rows \ fileTable.hidden :
          fileTable' = [fileTable EXCEPT !.selected = r]
    /\ Returns("SelectCell", "returned", "")
    /\ UNCHANGED <<call, landmarkNames, importVolumeButton, annotationButtons,
                   volumeNode, fiducialNode, transformNode, activeRow>>

\* onImportVolume of LandmarkFlowWidget, onImportMesh of
\* CleftLandmarkFlowWidget.  loads: the image of the selected row loads;
\* stored: its landmark file loads.
onImportImage ==
    /\ importVolumeButton
    /\ \E loads \in BOOLEAN, stored \in BOOLEAN :
        /\ UNCHANGED <<call, landmarkNames, fileTable>>
        /\ IF fileTable.selected = 0
           THEN /\ Returns("onImportImage", "returned", "")
                /\ UNCHANGED <<importVolumeButton, annotationButtons, volumeNode,
                               fiducialNode, transformNode, activeRow>>
           ELSE IF loads
           THEN /\ volumeNode' = "inScene"
                /\ activeRow' = fileTable.selected
                /\ fiducialNode' = [state |-> "inScene",
                                    points |-> IF stored THEN StoredFiducials ELSE <<>>]
                /\ transformNode' = IF IsCleft THEN transformNode
                                    ELSE [state |-> "inScene", matrix |-> Identity]
                /\ enableButtons
                /\ Returns("onImportImage", "returned", "")
           ELSE /\ volumeNode' = "none"
                /\ Returns("onImportImage", "returned", "Image cannot be loaded")
                /\ UNCHANGED <<importVolumeButton, annotationButtons,
                               fiducialNode, transformNode, activeRow>>

\* The operator places one more control point on the image (where plays no
\* part in the table workflow).
PlaceLandmark ==
    /\ fiducialNode.state = "inScene"
    /\ Len(fiducialNode.points) < MaxFiducials
    /\ fiducialNode' = [fiducialNode EXCEPT
                          !.points = Append(@, Spot(Len(fiducialNode.points) + 1))]
    /\ Returns("PlaceLandmark", "returned", "")
    /\ UNCHANGED <<call, landmarkNames, importVolumeButton, annotationButtons,
                   volumeNode, transformNode, fileTable, activeRow>>

\* updateStatus up to the lookup of the status column: the table node is
\* removed and loaded again from the table file; keeps: the view keeps its
\* selection.
Reloaded(keeps) ==
    [fileTable EXCEPT !.state = "loaded", !.status = fileTable.file,
                      !.selected = IF keeps THEN @ ELSE 0]
\* The table after updateStatus(self.activeRow, ..., 'Complete') has run to
\* its end: the row is marked in the node and the node saved to the file.
Completed(keeps) ==
    [Reloaded(keeps) EXCEPT !.status[activeRow] = "Complete",
                            !.file = [fileTable.file EXCEPT ![activeRow] = "Complete"]]
\* The table when updateStatus raises at the missing column:
\* CleftLandmarkFlowWidget has set the status in the node by then, and
\* neither has saved.
Interrupted(keeps) ==
    IF IsCleft THEN [Reloaded(keeps) EXCEPT !.status[activeRow] = "Complete"]
    ELSE Reloaded(keeps)

\* onExportLandmarks with updateTableAndGUI and updateStatus.  saved:
\* slicer.util.saveNode writes the landmark file.
onExportLandmarks ==
    /\ annotationButtons
    /\ \E saved \in BOOLEAN, keeps \in BOOLEAN :
        /\ UNCHANGED <<call, landmarkNames, transformNode, activeRow>>
        /\ IF fiducialNode.state = "unset"
           THEN /\ Returns("onExportLandmarks", "returned", "")
                /\ UNCHANGED <<importVolumeButton, annotationButtons, volumeNode,
                               fiducialNode, fileTable>>
           ELSE IF nameFiducialsRaises
           THEN /\ Returns("onExportLandmarks", "IndexError", "")
                /\ UNCHANGED <<importVolumeButton, annotationButtons, volumeNode,
                               fiducialNode, fileTable>>
           ELSE IF ~saved
           THEN /\ Returns("onExportLandmarks", "returned", "Landmark file cannot be saved")
                /\ UNCHANGED <<importVolumeButton, annotationButtons, volumeNode,
                               fiducialNode, fileTable>>
           ELSE IF NeededColumn \notin fileTable.columns
           THEN /\ fileTable' = Interrupted(keeps)
                /\ Returns("onExportLandmarks", "AttributeError", "")
                /\ UNCHANGED <<importVolumeButton, annotationButtons, volumeNode,
                               fiducialNode>>
           ELSE IF IsCleft
           THEN /\ fileTable' = Completed(keeps)
                /\ fiducialNode' = [fiducialNode EXCEPT !.state = Removed(@)]
                /\ volumeNode' = Removed(volumeNode)
                /\ disableButtons
                /\ Returns("onExportLandmarks", "returned", "")
           ELSE /\ fileTable' = Completed(keeps)
                /\ Returns("onExportLandmarks", "returned", "")
                /\ UNCHANGED <<importVolumeButton, annotationButtons, volumeNode,
                               fiducialNode>>

FlowNext ==
    \/ onLoadTable
    \/ SelectCell
    \/ onImportImage
    \/ PlaceLandmark
    \/ onExportLandmarks
    \/ onSkip

FlowSpec == FlowInit /\ [][FlowNext]_vars

\* ---------------------------------------------------------- the self-tests
\* runTest of the four modules: setUp clears the scene, the test downloads
\* FA.nrrd unless a file of that name is there, loads it, looks the node up
\* and calls hasImageData on a new Logic object of the module.  call holds
\* the module, the statement the test is at (pc), the state of the
\* downloaded file, the nodes named FA in the scene before and after the
\* load, the value hasImageData returned, and the exception that ended the
\* test with the statement (at) that raised it.
Modules == {"CranIALCTAnnotation", "LandmarkFlow", "MandibleNerveFlow", "CleftLandmarkFlow"}

\* The methods each Logic class defines.
LogicMethods(m) ==
    CASE m = "CranIALCTAnnotation" ->
           {"run", "takeScreenshot", "segmentHead", "removeTube", "segmentSkull",
            "removeNoise", "initializeSegmentation", "getActiveCell", "getActiveCellRow",
            "hideCompletedSamples", "getFrankfortAlignment", "getOSeAlignment"}
      [] m = "LandmarkFlow" ->
           {"run", "takeScreenshot", "segmentSkull", "initializeSegmentation",
            "getActiveCell", "getActiveCellRow", "runImport", "hideCompletedSamples",
            "checkForStatusColumn", "getFrankfortAlignment", "getOSeAlignment"}
      [] m = "MandibleNerveFlow" ->
           {"run", "takeScreenshot", "segmentSkull", "initializeSegmentation",
            "getActiveCell", "getActiveCellRow", "runImport", "hideCompletedSamples",
            "getFrankfortAlignment", "getOSeAlignment"}
      [] m = "CleftLandmarkFlow" ->
           {"getActiveCell", "getActiveCellRow", "hideCompletedSamples",
            "checkForStatusColumn", "applyTexture", "showTextureOnModel",
            "applyMultiTexture", "OBJtoVTP"}
\* The methods of the base class ScriptedLoadableModuleLogic of the host.
BaseLogicMethods == {"getParameterNode", "getAllParameterNodes", "createParameterNode"}
\* getattr(logic, name) finds the method in the class or in its base.
HasMethod(m, name) == name \in LogicMethods(m) \cup BaseLogicMethods

\* The widget of module m with an image imported and no landmark placed
\* yet (CleftLandmarkFlowWidget makes no transform node).
WidgetImported(m) ==
    /\ landmarkNames \in NameLists
    /\ importVolumeButton = FALSE
    /\ annotationButtons = TRUE
    /\ volumeNode = "inScene"
    /\ fiducialNode = [state |-> "inScene", points |-> <<>>]
    /\ transformNode = [state |-> IF m = "CleftLandmarkFlow" THEN "unset" ELSE "inScene",
                        matrix |-> Identity]
    /\ handler = "onImportVolume"
    /\ outcome = "returned"
    /\ message = ""
    /\ fileTable = [state |-> "unset", columns |-> {}, status |-> <<>>,
                    file |-> <<>>, hidden |-> {}, selected |-> 0]
    /\ activeRow = 0

\* The test is started from the module's panel, new or with an image imported.
TestInit ==
    \E m \in Modules, f \in {"absent", "empty", "present"}, before \in BOOLEAN :
        /\ call = [op |-> "runTest", module |-> m, pc |-> "setUp", file |-> f,
                   scene |-> before, node |-> "unset", result |-> "unset",
                   raised |-> "", at |-> ""]
        /\ WidgetInit \/ WidgetImported(m)

\* The test moves to statement pc, or ends with an exception raised at `at`.
TestGoes(next) == call' = next /\ UNCHANGED widget
TestRaises(exception, at) ==
    TestGoes([call EXCEPT !.pc = "raised", !.raised = exception, !.at = at])

\* setUp: slicer.mrmlScene.Clear(0) removes every node from the scene, the
\* widget's among them; the widget's attributes and buttons stay.
setUp ==
    /\ call.op = "runTest" /\ call.pc = "setUp"
    /\ call' = [call EXCEPT !.pc = "download", !.scene = FALSE]
    /\ volumeNode' = Removed(volumeNode)
    /\ fiducialNode' = [fiducialNode EXCEPT !.state = Removed(@)]
    /\ transformNode' = [transformNode EXCEPT !.state = Removed(@)]
    /\ fileTable' = [fileTable EXCEPT !.state = Removed(@)]
    /\ UNCHANGED <<landmarkNames, importVolumeButton, annotationButtons,
                   handler, outcome, message, activeRow>>

\* The download of the loop: skipped when the file is there and not empty;
\* urllib.urlretrieve fetches it or raises.
Download ==
    /\ call.op = "runTest" /\ call.pc = "download"
    /\ \E fetched \in BOOLEAN :
          IF call.file = "present" THEN TestGoes([call EXCEPT !.pc = "load"])
          ELSE IF fetched THEN TestGoes([call EXCEPT !.pc = "load", !.file = "present"])
          ELSE TestRaises("IOError", "download")

\* loader(filePath): slicer.util.loadVolume adds the node FA or fails.
Load ==
    /\ call.op = "runTest" /\ call.pc = "load"
    /\ \E loaded \in BOOLEAN :
          TestGoes([call EXCEPT !.pc = "getNode", !.scene = loaded])

\* volumeNode = slicer.util.getNode(pattern="FA"): the node, or an exception
\* when the scene has none of that name.
GetNode ==
    /\ call.op = "runTest" /\ call.pc = "getNode"
    /\ IF call.scene THEN TestGoes([call EXCEPT !.pc = "hasImageData", !.node = "loaded"])
       ELSE TestRaises("MRMLNodeNotFoundException", "getNode")

\* logic = <Module>Logic(); self.assertIsNotNone(logic.hasImageData(volumeNode)):
\* the attribute lookup raises AttributeError when neither the class nor its
\* base defines hasImageData.
HasImageData ==
    /\ call.op = "runTest" /\ call.pc = "hasImageData"
    /\ \E value \in BOOLEAN :
          IF HasMethod(call.module, "hasImageData")
          THEN TestGoes([call EXCEPT !.pc = "passed", !.result = value, !.at = "hasImageData"])
          ELSE TestRaises("AttributeError", "hasImageData")

TestNext == setUp \/ Download \/ Load \/ GetNode \/ HasImageData

TestSpec == TestInit /\ [][TestNext]_vars

\* ------------------------------------------------------------------ claims
Returned == call.pc = "returned"
IsFrankfort == call.op = "getFrankfortAlignment"
IsOSe == call.op = "getOSeAlignment"

\* The matrix the returned call gave, and a point taken through it.
Matrix == call.locals.matrix
Through(p) == TransformPoint(Matrix, p)
Diff(a, b) == <<Sub(a[1], b[1]), Sub(a[2], b[2]), Sub(a[3], b[3])>>
Midpoint(a, b) == <<Half(Add(a[1], b[1])), Half(Add(a[2], b[2])), Half(Add(a[3], b[3]))>>
Cross(a, b) ==
    <<Sub(Mul(a[2], b[3]), Mul(a[3], b[2])),
      Sub(Mul(a[3], b[1]), Mul(a[1], b[3])),
      Sub(Mul(a[1], b[2]), Mul(a[2], b[1]))>>
ZeroVector == <<Zero, Zero, Zero>>

\* Column j of the 3x3 block of m times column k.
ColumnDot(m, j, k) ==
    Add(Add(Mul(m[1][j], m[1][k]), Mul(m[2][j], m[2][k])), Mul(m[3][j], m[3][k]))
\* The determinant of the 3x3 block of m.
Det3(m) ==
    Add(Add(Mul(m[1][1], Sub(Mul(m[2][2], m[3][3]), Mul(m[2][3], m[3][2]))),
            Mul(m[1][2], Sub(Mul(m[2][3], m[3][1]), Mul(m[2][1], m[3][3])))),
        Mul(m[1][3], Sub(Mul(m[2][1], m[3][2]), Mul(m[2][2], m[3][1]))))
IsProperRotation(m) ==
    /\ \A j \in 1..3, k \in 1..3 : ColumnDot(m, j, k) = (IF j = k THEN One ELSE Zero)
    /\ Det3(m) = One

\* C1: the 3x3 block of the matrix returned by getFrankfortAlignment and by
\* getOSeAlignment is a proper rotation for every input: its transpose times
\* itself is the identity and its determinant is +1.
C1_ProperRotation == Returned => IsProperRotation(Matrix)

\* A returned call in which each of the three stages turns the points.
C1_Witness ==
    /\ Returned /\ IsOSe
    /\ call.locals.vTransform # Identity
    /\ call.locals.vTransform2 # Identity
    /\ call.locals.vTransform3 # Identity

\* C2: the translation entries (rows 0..2 of the last column) of the returned
\* matrix are exactly 0 for every input.
C2_ZeroTranslation == Returned => \A i \in 1..3 : Matrix[i][4] = Zero

\* A returned call whose points are off the origin and whose matrix is not
\* the identity.
C2_Witness ==
    /\ Returned /\ IsFrankfort
    /\ call.poL # ZeroVector
    /\ Matrix # Identity

\* C3: for poR # poL, the matrix takes poR and poL to two points with equal Y
\* and equal Z: their difference lies along the X axis alone.
C3_Leveling ==
    (Returned /\ call.poR # call.poL) =>
        LET d == Diff(Through(call.poR), Through(call.poL))
        IN  d[2] = Zero /\ d[3] = Zero /\ d[1] # Zero

\* A returned call whose porion line was tilted in both Y and Z, with a third
\* stage that turns.
C3_Witness ==
    /\ Returned
    /\ Diff(call.poR, call.poL)[2] # Zero
    /\ Diff(call.poR, call.poL)[3] # Zero
    /\ call.locals.vTransform3 # Identity

NonCollinear(a, b, c) == Cross(Diff(a, b), Diff(c, b)) # ZeroVector

\* The angle of the third stage recomputed from its definition: minus the
\* atan2(dz, dy) of third minus the porion midpoint, all three points taken
\* through the first two stages.
FrankfortThetaX ==
    LET m21 == Multiply4x4(call.locals.vTransform2, call.locals.vTransform)
        v == Diff(TransformPoint(m21, call.third),
                  Midpoint(TransformPoint(m21, call.poR), TransformPoint(m21, call.poL)))
    IN  Minus(arctan2(v[3], v[2]))

\* C4: for non-collinear poR, poL, third, the matrix of getFrankfortAlignment
\* takes the three points to the same Z, and its third stage is the rotation
\* about X by -atan2(dz, dy) of third minus the porion midpoint after the
\* stages 1 and 2.
C4_FrankfortPlane ==
    (Returned /\ IsFrankfort /\ NonCollinear(call.poR, call.poL, call.third)) =>
        /\ Through(call.poR)[3] = Through(call.poL)[3]
        /\ Through(call.third)[3] = Through(call.poR)[3]
        /\ call.locals.vTransform3 = RotateX(FrankfortThetaX)

\* A returned Frankfort call on three non-collinear points of which the
\* third was out of the plane Z = const of the porions after stage 2.
C4_Witness ==
    /\ Returned /\ IsFrankfort
    /\ NonCollinear(call.poR, call.poL, call.third)
    /\ call.locals.po_zyo[3] # Zero
    /\ call.locals.vTransform # Identity

\* The vector from the fourth argument (o) to the third (se, or n) after the
\* returned matrix.
OToSe == Diff(Through(call.se), Through(call.o))
SagittalCase == Returned /\ IsOSe /\ call.poR # call.poL /\ call.se # call.o

\* C5 as stated: for poR # poL and distinct midline points, the matrix of
\* getOSeAlignment makes the line through the two midline points parallel to
\* the vertical (Z) axis, with no Y component.
C5_Original == SagittalCase => (OToSe[1] = Zero /\ OToSe[2] = Zero /\ OToSe[3] # Zero)

\* C5 as amended: for poR # poL and distinct midline points, the vector from
\* o to se after the returned matrix has no vertical (Z) component and a
\* non-negative depth (Y) component: the third stage turns its projection on
\* the sagittal (Y-Z) plane onto the +Y axis, and leaves its X component.
C5_SagittalHorizontal == SagittalCase => (OToSe[3] = Zero /\ Sign(OToSe[2]) >= 0)

\* A returned sagittal call whose midline vector had a Z component to remove
\* and keeps an X component.
C5_Witness ==
    /\ SagittalCase
    /\ call.locals.o_se[3] # Zero
    /\ OToSe[1] # Zero
    /\ OToSe[2] # Zero

\* The two arguments of the atan2 of each stage, and the stage's transform.
Stage3Vector == IF IsFrankfort THEN call.locals.po_zyo ELSE call.locals.o_se
StageArguments ==
    << <<call.locals.po[2], call.locals.po[1]>>,
       <<call.locals.poB[3], call.locals.poB[1]>>,
       <<Stage3Vector[3], Stage3Vector[2]>> >>
StageTransforms ==
    <<call.locals.vTransform, call.locals.vTransform2, call.locals.vTransform3>>
IsMatrix(m) == \A i \in 1..4, j \in 1..4 : IsNumber(m[i][j])

\* C9: both operations return a matrix for every input, the degenerate ones
\* (poR = poL, third at the porion midpoint, se = o, poR - poL along Z)
\* included, and a stage whose two atan2 arguments are both zero contributes
\* the identity.
C9_DegenerateReturns ==
    Returned =>
        /\ IsMatrix(Matrix)
        /\ \A k \in 1..3 :
              (StageArguments[k] = <<Zero, Zero>>) => StageTransforms[k] = Identity

\* A returned call whose porion line is along Z and whose third point is
\* on that line: the first and third stages have atan2(0, 0), the second
\* turns by a right angle.
C9_Witness ==
    /\ Returned /\ IsFrankfort
    /\ call.poR # call.poL
    /\ StageArguments[1] = <<Zero, Zero>>
    /\ StageArguments[3] = <<Zero, Zero>>
    /\ call.third = call.poL
    /\ StageTransforms[2] # Identity

ScenarioCase ==
    /\ Returned /\ IsFrankfort
    /\ call.poR = ScenarioPoR /\ call.poL = ScenarioPoL /\ call.third = ScenarioThird
\* The transformed third point minus the transformed porion midpoint.
MidToThird == Diff(Through(call.third), Midpoint(Through(call.poR), Through(call.poL)))
PorionsLevel ==
    /\ Through(call.poR)[2] = Through(call.poL)[2]
    /\ Through(call.poR)[3] = Through(call.poL)[3]

\* C10 as stated: for poR = (50,0,0), poL = (-50,0,0), third = (0,80,100) the
\* returned matrix takes poR and poL to equal Y and Z and takes third directly
\* above the transformed midpoint: X and Y of their difference are 0.
C10_Original == ScenarioCase => (PorionsLevel /\ MidToThird[1] = Zero /\ MidToThird[2] = Zero)

\* C10 as amended: for that input the returned matrix takes poR and poL to
\* equal Y and Z and takes third directly in front of the transformed
\* midpoint along the depth (Y) axis: X and Z of their difference are 0 and
\* Y is the positive length sqrt(80^2 + 100^2) = 20 * sqrt(41).
C10_ScenarioInFront ==
    ScenarioCase =>
        (PorionsLevel /\ MidToThird[1] = Zero /\ MidToThird[3] = Zero
            /\ MidToThird[2] = <<20, 1, 41>>)

\* The scenario's call has returned.
C10_Witness == ScenarioCase /\ Matrix # Identity

\* The alignment handlers and the landmark names each one requires.
AlignmentHandlers == {"onFrankfort", "onFrankfort2", "onOSeaAlignment", "onONaAlignment"}
Required(h) ==
    CASE h = "onFrankfort" -> {"zyoL", "poR", "poL"}
      [] h = "onFrankfort2" -> {"zyoR", "poR", "poL"}
      [] h = "onOSeaAlignment" -> {"o", "se", "poR", "poL"}
      [] h = "onONaAlignment" -> {"o", "n", "poR", "poL"}
      [] OTHER -> {}
InNameList(name) == \E i \in 1..Len(landmarkNames) : landmarkNames[i] = name
Warned == message = "Missing landmark" /\ outcome = "returned"

\* C6: when a name an alignment handler requires is absent from the name
\* list, the handler shows the 'landmarks not marked yet' warning and returns
\* normally, with no uncaught exception.
C6_MissingLandmarkWarns ==
    (handler \in AlignmentHandlers /\ \E name \in Required(handler) : ~InNameList(name))
        => Warned

\* C7: when the number of placed points is less than or equal to the index
\* of any landmark the handler requires, the handler shows the warning and
\* returns without computing a matrix.
C7_InsufficientPointsWarns ==
    (handler \in AlignmentHandlers
        /\ \E name \in Required(handler) :
              InNameList(name) /\ GetNumberOfFiducials <= Id(name))
        => Warned

\* The matrix the handler h computes from the placed points.
MatrixOf(h) ==
    CASE h = "onFrankfort" -> FrankfortMatrix("zyoL")
      [] h = "onFrankfort2" -> FrankfortMatrix("zyoR")
      [] h = "onOSeaAlignment" -> OSeMatrix("se")
      [] h = "onONaAlignment" -> OSeMatrix("n")
RefusedNext == outcome' # "returned" \/ message' = "Missing landmark"

\* C8: a step of an alignment handler that refuses (a required name missing,
\* too few placed points) leaves the transform node as it was, and a step
\* that does not refuse installs the complete three-stage matrix: no other
\* matrix is ever installed.
C8_RefusalKeepsTransform ==
    [][handler' \in AlignmentHandlers =>
          IF RefusedNext THEN transformNode' = transformNode
          ELSE transformNode' = [transformNode EXCEPT !.matrix = MatrixOf(handler')]]_vars

\* A handler has refused with the warning while the transform node holds the
\* matrix of an earlier alignment.
C8_Witness ==
    /\ handler \in AlignmentHandlers
    /\ Warned
    /\ transformNode.matrix # Identity

\* A returned Frankfort call on porions (a, 0, 0) and (-a, 0, 0), a # 0.
LevelCase ==
    /\ Returned /\ IsFrankfort
    /\ call.poR[1] # Zero /\ call.poR[2] = Zero /\ call.poR[3] = Zero
    /\ call.poL = <<Neg(call.poR[1]), Zero, Zero>>
\* The third point on the vertical (Z) axis above the midpoint, and on the
\* depth (Y) axis in front of it.
ThirdAbove == call.third[1] = Zero /\ call.third[2] = Zero /\ Sign(call.third[3]) > 0
ThirdInFront == call.third[1] = Zero /\ Sign(call.third[2]) > 0 /\ call.third[3] = Zero
\* The rotation about X by minus a right angle.
QuarterTurnBack == RotateX(<<Zero, Neg(One)>>)

\* C11 as stated: for a # 0 and h > 0, getFrankfortAlignment on porions
\* (a, 0, 0), (-a, 0, 0) and third (0, 0, h) directly above their midpoint
\* returns the identity.
C11_Original == (LevelCase /\ ThirdAbove) => Matrix = Identity

\* C11 as amended: for a > 0 and h > 0, getFrankfortAlignment on poR = (a, 0, 0),
\* poL = (-a, 0, 0) returns the identity when third is directly in front of
\* the midpoint along the depth axis, (0, h, 0); with third above the midpoint,
\* (0, 0, h), it returns the rotation about X by minus a right angle, which
\* brings third in front.
C11_LevelInFrontIdentity ==
    (LevelCase /\ Sign(call.poR[1]) > 0) =>
        /\ ThirdInFront => Matrix = Identity
        /\ ThirdAbove => Matrix = QuarterTurnBack

\* A returned call on level porions, poR on the positive side, third in front.
C11_Witness == LevelCase /\ Sign(call.poR[1]) > 0 /\ ThirdInFront

\* The locals of the call with poR and poL exchanged and third kept.
Swapped == FrankfortLocals(call.poL, call.poR, call.third)
\* The angle of a rotation about Z, as <<cos, sin>>, read from its matrix.
ThetaZ(m) == <<m[1][1], m[2][1]>>
\* The angle a plus a half turn.
HalfTurnMore(a) == <<Neg(a[1]), Neg(a[2])>>
SwapCase == Returned /\ IsFrankfort /\ call.poR # call.poL
\* The swapped call returns a proper rotation that levels the pair.
SwappedLevels ==
    LET d == Diff(TransformPoint(Swapped.matrix, call.poL),
                  TransformPoint(Swapped.matrix, call.poR))
    IN  /\ IsProperRotation(Swapped.matrix)
        /\ d[2] = Zero /\ d[3] = Zero /\ d[1] # Zero

\* C12 as stated: for poR # poL, exchanging poR and poL with third kept
\* changes only the sign of the stage-1 angle thetaZ, and the swapped call
\* still returns a proper rotation that levels the pair.
C12_Original ==
    SwapCase =>
        /\ ThetaZ(Swapped.vTransform) = Minus(ThetaZ(call.locals.vTransform))
        /\ SwappedLevels

\* C12 as amended: for poR # poL, exchanging poR and poL with third kept
\* adds a half turn to the stage-1 angle thetaZ (it stays 0 when poR - poL
\* has no X and no Y component), and the swapped call still returns a proper
\* rotation that levels the pair.
C12_SwapHalfTurn ==
    SwapCase =>
        /\ ThetaZ(Swapped.vTransform) =
              (IF call.locals.po[1] = Zero /\ call.locals.po[2] = Zero
               THEN ThetaZ(call.locals.vTransform)
               ELSE HalfTurnMore(ThetaZ(call.locals.vTransform)))
        /\ SwappedLevels

\* A returned call whose porion line is oblique in the X-Y plane, so that
\* minus the angle and the angle plus a half turn differ.
C12_Witness ==
    /\ SwapCase
    /\ call.locals.po[1] # Zero /\ call.locals.po[2] # Zero
    /\ HalfTurnMore(ThetaZ(call.locals.vTransform)) # Minus(ThetaZ(call.locals.vTransform))

\* The squared length of a vector.
LengthSquared(v) == Add(Add(Mul(v[1], v[1]), Mul(v[2], v[2])), Mul(v[3], v[3]))
BilateralCase == Returned /\ call.poR # call.poL
\* The transformed poR minus the transformed poL.
PorionLine == Diff(Through(call.poR), Through(call.poL))

\* C13 as stated: for poR # poL the returned matrix places poR and poL
\* symmetric about the plane X = 0: the transformed points have opposite X
\* and equal Y and Z.
C13_Original ==
    BilateralCase =>
        /\ Through(call.poR)[1] = Neg(Through(call.poL)[1])
        /\ Through(call.poR)[2] = Through(call.poL)[2]
        /\ Through(call.poR)[3] = Through(call.poL)[3]

\* C13 as amended: for poR # poL the returned matrix places poR and poL at
\* equal Y and Z, poR on the +X side of poL at their original distance; the
\* two are symmetric about the plane X = 0 exactly when the transformed
\* midpoint lies on it, which the rotation, carrying no translation, does not
\* bring about.
C13_LevelledNotCentred ==
    BilateralCase =>
        /\ PorionLine[2] = Zero /\ PorionLine[3] = Zero
        /\ Sign(PorionLine[1]) > 0
        /\ Mul(PorionLine[1], PorionLine[1]) = LengthSquared(Diff(call.poR, call.poL))
        /\ (Through(call.poR)[1] = Neg(Through(call.poL)[1]))
              <=> (Through(Midpoint(call.poR, call.poL))[1] = Zero)

\* A returned call that turned a pair whose midpoint is off the plane X = 0
\* after the rotation.
C13_Witness ==
    /\ BilateralCase /\ IsOSe
    /\ Matrix # Identity
    /\ Through(Midpoint(call.poR, call.poL))[1] # Zero

\* C14: a call of getFrankfortAlignment or getOSeAlignment leaves each of its
\* argument lists element for element as it was and changes no state outside
\* the call: every step of a call keeps the operation, the arguments and the
\* whole widget (its nodes, its attributes), and adds only the call's own
\* locals with the matrix it returns.
C14_NoSideEffects ==
    [][/\ call'.op = call.op
       /\ call'.poR = call.poR /\ call'.poL = call.poL
       /\ (call.op = "getFrankfortAlignment" => call'.third = call.third)
       /\ (call.op = "getOSeAlignment" => call'.se = call.se /\ call'.o = call.o)
       /\ IsMatrix(call'.locals.matrix)
       /\ UNCHANGED widget]_vars

\* A call has returned a matrix that moves its arguments.
C14_Witness ==
    /\ Returned /\ IsFrankfort
    /\ Through(call.poR) # call.poR
    /\ Through(call.third) # call.third

\* The matrix the call of thread t returns when it runs alone.
Alone(t) ==
    IF call.threads[t].op = "getFrankfortAlignment"
    THEN getFrankfortAlignment(call.threads[t].args[1], call.threads[t].args[2],
                               call.threads[t].args[3])
    ELSE getOSeAlignment(call.threads[t].args[1], call.threads[t].args[2],
                         call.threads[t].args[3], call.threads[t].args[4])

\* C15: in every interleaving of the statements of simultaneous calls of
\* getFrankfortAlignment and getOSeAlignment, each call returns exactly the
\* matrix it returns when run alone.
C15_ConcurrentCallsIndependent ==
    \A t \in Threads :
        HasReturned(t) => call.threads[t].result = Alone(t)

\* The call of thread 1 has returned its matrix while the call of thread 2,
\* of the other operation, is in the middle of its statements.
C15_Witness ==
    /\ call.op = "threads"
    /\ HasReturned(1)
    /\ call.threads[2].pc = 5
    /\ call.threads[1].op # call.threads[2].op
    /\ call.threads[1].result # Identity
    /\ call.frames[1].vTransform # call.frames[2].vTransform

\* poR - poL of the raw arguments, after stage 1 and after stages 1 and 2.
RawPorionLine == Diff(call.poR, call.poL)
AfterStage1(p) == TransformPoint(call.locals.vTransform, p)
AfterStage2(p) == TransformPoint(call.locals.vTransform2, AfterStage1(p))
PorionLineAfterStage1 == Diff(AfterStage1(call.poR), AfterStage1(call.poL))
PorionLineAfterStage2 == Diff(AfterStage2(call.poR), AfterStage2(call.poL))

\* C18: the first stage of both operations is the rotation about Z by
\* -atan2(dy, dx) of the raw poR - poL, and after it alone the rotated
\* poR - poL has Y = 0 and its Z as before, for every input.
C18_StageOneRoll ==
    Returned =>
        /\ call.locals.vTransform =
              RotateZ(Minus(arctan2(RawPorionLine[2], RawPorionLine[1])))
        /\ PorionLineAfterStage1[2] = Zero
        /\ PorionLineAfterStage1[3] = RawPorionLine[3]

\* A returned call whose raw porion line had a Y component to remove and a Z
\* component to keep.
C18_Witness ==
    /\ Returned /\ IsOSe
    /\ RawPorionLine[2] # Zero /\ RawPorionLine[3] # Zero
    /\ call.locals.vTransform # Identity

\* C19: the second stage of both operations is the rotation about Y by
\* atan2(dz, dx) of poR - poL recomputed from the points rotated by stage 1,
\* and after stages 1 and 2 the rotated poR - poL has Y = 0 and Z = 0, for
\* every input.
C19_StageTwoPitch ==
    Returned =>
        /\ call.locals.vTransform2 =
              RotateY(arctan2(PorionLineAfterStage1[3], PorionLineAfterStage1[1]))
        /\ PorionLineAfterStage2[2] = Zero
        /\ PorionLineAfterStage2[3] = Zero

\* A returned Frankfort call whose second stage turns and whose porion line
\* after stage 1 differs from the raw one, so that the angle taken from the
\* raw inputs would be another.
C19_Witness ==
    /\ Returned /\ IsFrankfort
    /\ call.locals.vTransform2 # Identity
    /\ PorionLineAfterStage1[1] # RawPorionLine[1]
    /\ call.locals.vTransform2 # RotateY(arctan2(RawPorionLine[3], RawPorionLine[1]))

\* The points the composition is compared on: the arguments of the call and
\* two more.
ComposedOn ==
    {call.poR, call.poL, Point(1, -1, 0), Point(0, 1, 1)}
        \cup (IF IsFrankfort THEN {call.third} ELSE {call.se, call.o})
\* The product of the stage rotations in the reverse order, R1 * R2 * R3.
ReverseProduct ==
    Multiply4x4(call.locals.vTransform,
                Multiply4x4(call.locals.vTransform2, call.locals.vTransform3))

\* C20: the returned matrix is R3 * R2 * R1, the stage-3 rotation times the
\* stage-2 rotation times the stage-1 rotation: it takes every point where
\* stage 1, then stage 2, then stage 3 take it.
C20_CompositionOrder ==
    Returned =>
        /\ Matrix = Multiply4x4(call.locals.vTransform3,
                                Multiply4x4(call.locals.vTransform2, call.locals.vTransform))
        /\ \A p \in ComposedOn :
              Through(p) = TransformPoint(call.locals.vTransform3, AfterStage2(p))

\* A returned call whose matrix is not the reverse product R1 * R2 * R3.
C20_Witness ==
    /\ Returned /\ IsFrankfort
    /\ Matrix # ReverseProduct
    /\ Through(call.third) # TransformPoint(ReverseProduct, call.third)

\* Export Landmarks has succeeded: the handler has saved the landmark file
\* and marked the row of the imported image complete.
Exported ==
    /\ handler = "onExportLandmarks" /\ outcome = "returned" /\ message = ""
    /\ fiducialNode.state # "unset"

\* C16: after Export Landmarks succeeds for the imported image, the row of
\* that image is removed from the table view (hidden), so that it cannot be
\* selected and imported again.
C16_ExportRemovesFromTable == Exported => activeRow \in fileTable.hidden

\* hasImageData has been called on the Logic object with a loaded node.
HasImageDataCalled ==
    /\ call.op = "runTest" /\ call.node = "loaded"
    /\ call.at = "hasImageData"

\* C17: for a volume node that was loaded successfully, the call of
\* hasImageData(node) on the module's Logic object completes and returns a
\* value that is not None, in each of the four modules.
C17_HasImageDataReturns ==
    HasImageDataCalled => (call.raised = "" /\ call.result \in BOOLEAN)

\* The third and fourth arguments of the sagittal call after stages 1 and 2.
SagittalCall == Returned /\ IsOSe
ThirdMinusFourth == Diff(AfterStage2(call.se), AfterStage2(call.o))
FourthMinusThird == Diff(AfterStage2(call.o), AfterStage2(call.se))
ThetaXOf(v) == Minus(arctan2(v[3], v[2]))

\* C21 as stated: in getOSeAlignment(poR, poL, se, o) the stage-3 angle is
\* -atan2(dz, dy) of the fourth argument minus the third argument, both taken
\* after stages 1 and 2.
C21_Original == SagittalCall => call.locals.vTransform3 = RotateX(ThetaXOf(FourthMinusThird))

\* C21 as amended: in getOSeAlignment(poR, poL, se, o) the stage-3 angle is
\* -atan2(dz, dy) of the third argument minus the fourth argument (se - o,
\* the vector from o to se), both taken after stages 1 and 2; the vector
\* taken the other way gives that angle plus a half turn whenever it has a
\* Y or a Z component.
C21_SagittalStage3 ==
    SagittalCall =>
        /\ call.locals.o_se = ThirdMinusFourth
        /\ call.locals.vTransform3 = RotateX(ThetaXOf(ThirdMinusFourth))
        /\ (ThirdMinusFourth[2] # Zero \/ ThirdMinusFourth[3] # Zero) =>
              ThetaXOf(FourthMinusThird) = HalfTurnMore(ThetaXOf(ThirdMinusFourth))

\* A returned sagittal call in which the first two stages turn the midline
\* points and the midline vector has both a Y and a Z component.
C21_Witness ==
    /\ SagittalCall
    /\ call.locals.vTransform # Identity /\ call.locals.vTransform2 # Identity
    /\ ThirdMinusFourth[2] # Zero /\ ThirdMinusFourth[3] # Zero
    /\ ThirdMinusFourth # Diff(call.se, call.o)

\* The Euclidean distance between the raw porions.
PorionDistance == Sqrt(LengthSquared(RawPorionLine))

\* C22: for poR # poL the matrix returned by either operation takes
\* poR - poL to (d, 0, 0) with d the distance between poR and poL, so poR ends
\* on the +X side of poL; and the matrix of getFrankfortAlignment takes third
\* to the same Z as the porion midpoint and to a Y not below it (the X
\* component of their difference is left as it falls).
C22_OrientationConvention ==
    BilateralCase =>
        /\ Sign(PorionDistance) > 0
        /\ TransformPoint(Matrix, RawPorionLine) = <<PorionDistance, Zero, Zero>>
        /\ PorionLine = <<PorionDistance, Zero, Zero>>
        /\ IsFrankfort => (MidToThird[3] = Zero /\ Sign(MidToThird[2]) >= 0)

\* A returned Frankfort call with poR on the -X side of poL at an irrational
\* distance, whose third point ends in front of the midpoint and off to one
\* side of it.
C22_Witness ==
    /\ BilateralCase /\ IsFrankfort
    /\ Sign(RawPorionLine[1]) < 0
    /\ PorionDistance[3] # 1
    /\ call.locals.po_zyo[3] # Zero
    /\ Sign(MidToThird[2]) > 0
    /\ MidToThird[1] # Zero

\* The matrix of the same operation called again on the arguments of the
\* returned call taken through the matrix it returned.
Realigned ==
    IF IsFrankfort
    THEN getFrankfortAlignment(Through(call.poR), Through(call.poL), Through(call.third))
    ELSE getOSeAlignment(Through(call.poR), Through(call.poL),
                         Through(call.se), Through(call.o))

HalfTurnAboutY == RotateY(<<Neg(One), Zero>>)
\* A point with its X and Z coordinates negated.
FlipXZ(p) == <<Neg(p[1]), p[2], Neg(p[3])>>
SwapNonCollinear ==
    Returned /\ IsFrankfort /\ NonCollinear(call.poR, call.poL, call.third)

\* C24: for non-collinear poR, poL, third, getFrankfortAlignment(poL, poR,
\* third) is the half turn about Y composed after getFrankfortAlignment(poR,
\* poL, third): the swapped matrix takes every point to the point the
\* matrix takes it to with X and Z negated and Y kept.
C24_SwapIsHalfTurnAboutY ==
    SwapNonCollinear =>
        /\ Swapped.matrix = Multiply4x4(HalfTurnAboutY, Matrix)
        /\ \A p \in ComposedOn :
              TransformPoint(Swapped.matrix, p) = FlipXZ(Through(p))

\* A returned Frankfort call on non-collinear points in which every stage
\* turned and the aligned third point is off the Y axis.
C24_Witness ==
    /\ SwapNonCollinear
    /\ call.locals.vTransform # Identity
    /\ call.locals.vTransform2 # Identity
    /\ call.locals.vTransform3 # Identity
    /\ Through(call.third)[1] # Zero /\ Through(call.third)[3] # Zero
    /\ TransformPoint(Swapped.matrix, call.third) # Through(call.third)

\* The matrices the three copies of the called function return on the
\* arguments of the call.
CopiesOfFrankfort ==
    {getFrankfortAlignment(call.poR, call.poL, call.third),
     LandmarkFlow_getFrankfortAlignment(call.poR, call.poL, call.third),
     MandibleNerveFlow_getFrankfortAlignment(call.poR, call.poL, call.third)}
CopiesOfOSe ==
    {getOSeAlignment(call.poR, call.poL, call.se, call.o),
     LandmarkFlow_getOSeAlignment(call.poR, call.poL, call.se, call.o),
     MandibleNerveFlow_getOSeAlignment(call.poR, call.poL, call.se, call.o)}

\* C25: for every input, getFrankfortAlignment of CranIALCTAnnotationLogic,
\* LandmarkFlowLogic and MandibleNerveFlowLogic return the same matrix, and
\* so do the three getOSeAlignment: the matrix a call on an object of any of
\* the classes returns is the one each copy returns on those arguments.
C25_CopiesAgree ==
    Returned =>
        (IF IsFrankfort THEN CopiesOfFrankfort ELSE CopiesOfOSe) = {call.locals.matrix}

\* A sagittal call on a MandibleNerveFlowLogic object has returned a matrix
\* in which every stage turns, from a midline vector with a Y and a Z
\* component.
C25_Witness ==
    /\ call.op = "getOSeAlignment" /\ call.pc = "returned"
    /\ call.class = "MandibleNerveFlowLogic"
    /\ call.locals.vTransform # Identity
    /\ call.locals.vTransform2 # Identity
    /\ call.locals.vTransform3 # Identity
    /\ call.locals.o_se[2] # Zero /\ call.locals.o_se[3] # Zero

\* The handler h, pressed now, installs its matrix: the names are there and
\* the required points are placed.
Succeeds(h) ==
    /\ ~nameFiducialsRaises
    /\ \A name \in Required(h) : ~LookupRaises(name)
    /\ ~NotMarkedYet(Required(h))
\* C26: the matrix an alignment handler installs is computed from the stored
\* control-point positions alone, whatever matrix the transform node holds:
\* a press that succeeds replaces the node's matrix by the matrix of that
\* alignment, a press that does not succeed leaves it, a second press of the
\* same button changes nothing; so over the presses the node holds the
\* identity or the matrix of the last alignment that succeeded, never a
\* product of two.
C26_LastAlignmentWins ==
    [][handler' \in AlignmentHandlers =>
          /\ fiducialNode' = fiducialNode
          /\ transformNode'.matrix =
                (IF Succeeds(handler') THEN MatrixOf(handler') ELSE transformNode.matrix)
          /\ Succeeds(handler') <=> ~RefusedNext
          /\ handler = handler' => transformNode' = transformNode]_vars

\* Frankfort (R) has installed its matrix where Frankfort (L) succeeds on the
\* same stored points with another one, neither the identity: the state is
\* the same whether Frankfort (L) was pressed before or not, and the matrix
\* held is not a product of the two.
C26_Witness ==
    /\ handler = "onFrankfort2" /\ outcome = "returned" /\ message = ""
    /\ Succeeds("onFrankfort")
    /\ transformNode.matrix = MatrixOf("onFrankfort2")
    /\ MatrixOf("onFrankfort") \notin {Identity, MatrixOf("onFrankfort2")}
    /\ transformNode.matrix # Identity
    /\ transformNode.matrix #
          Multiply4x4(MatrixOf("onFrankfort2"), MatrixOf("onFrankfort"))
    /\ transformNode.matrix #
          Multiply4x4(MatrixOf("onFrankfort"), MatrixOf("onFrankfort2"))

\* The handler that ran last installed its matrix.
Installed ==
    /\ outcome = "returned" /\ message = ""
    /\ transformNode.matrix = MatrixOf(handler)

\* C27: for every number of placed control points and every name list that
\* contains the names the handler requires, an alignment handler ends either
\* with the warning shown (the transform unchanged) or with its complete
\* matrix installed; the relabelling loop before the check (control point i
\* gets landmarkNames[i]) does not fail when more points are placed than
\* there are names.
C27_WarnsOrInstalls ==
    (handler \in AlignmentHandlers /\ \A name \in Required(handler) : InNameList(name))
        => (Warned \/ Installed)

\* C28: in every state reachable by the widget's events (load project,
\* import image, place, alignments, clear scene), the Import image button is
\* not enabled while the annotation buttons (alignments, export, clear scene)
\* are enabled, so that no second image is imported over the nodes of the
\* current one.
C28_OneImageAtATime == ~(importVolumeButton /\ annotationButtons)

\* The step is an onImportVolume whose volume did not load.
FailedImportNext == handler' = "onImportVolume" /\ message' = "Image cannot be loaded"

\* C29: an onImportVolume whose volume fails to load, on a first import or
\* on a later one, shows the 'Image cannot be loaded' warning, creates no
\* fiducial or transform node (the nodes are as before) and does not enable
\* the annotation buttons; and the annotation buttons are enabled only while
\* the volume and its transform node are in the scene.
C29_FailedImportInert ==
    [][/\ FailedImportNext =>
             /\ fiducialNode' = fiducialNode
             /\ transformNode' = transformNode
             /\ annotationButtons' = annotationButtons
       /\ annotationButtons' =>
             (volumeNode' = "inScene" /\ transformNode'.state = "inScene")]_vars

====
